---- MODULE Spec2Model ----
(***************************************************************************)
(* The sidecar RPC core of src-tauri/src/lib.rs: the send_message command  *)
(* (request ids, the pending table, the write to the sidecar's stdin, the  *)
(* wait with a timeout), the background reader of the sidecar's output     *)
(* (line reconstruction from chunks) and handle_sidecar_output (event      *)
(* forwarding and response correlation).                                   *)
(*                                                                         *)
(* Bytes of the output stream are symbols [k, doc].  A JSON object is the  *)
(* three symbols "{", "fields", "}", where the "fields" symbol carries the *)
(* members of the object that the code looks at; "num" is a JSON number,   *)
(* "x" an ASCII letter, "SP" a blank, "hi" and "lo" the lead and the       *)
(* continuation byte of one two-byte UTF-8 character.                      *)
(***************************************************************************)
EXTENDS Integers, Sequences, FiniteSets, TLC

\* Number of send_message invocations (one per caller task).
NumCalls == 2
\* Number of stdout chunks the sidecar delivers.
MaxChunks == 2
\* Number of stdout chunks in the byte-level specification of the reader.
MaxByteChunks == 3
\* Number of send_message invocations and of stdout chunks in the
\* classification specification.
NumClassifyCalls == 1
MaxClassifyChunks == 2
\* Number of stdout chunks in the specification with fairness.
MaxLiveChunks == 1
\* Number of stdout chunks in the specification with the locks.
MaxLockChunks == 2
\* Number of stdout chunks in the isolation specification.
MaxIsoChunks == 2
\* Number of chunks, stdout and stderr together, in the specification of
\* the two streams.
MaxStreamChunks == 3

VARIABLES
    REQUEST_ID,   \* the global AtomicU64 counter
    pending,      \* PendingRequests: id -> the caller whose oneshot sender is stored
    sidecar,      \* Mutex<Option<CommandChild>>: "None" or "Some"
    pc,           \* per caller: position in send_message
    id,           \* per caller: the local id (0 before fetch_add)
    chan,         \* per caller: the value held by its oneshot channel, if any
    outcome,      \* per caller: the value send_message returned, if any
    reader,       \* the background task: "unspawned", "running" or "closed"
    terminated,   \* CommandEvent::Terminated has been handled
    stdout_buf,   \* the reader's residual buffer
    emitted,      \* events handed to app.emit, in order
    chunks,       \* history: every stdout chunk received, in order
    dispatched,   \* history: every line handed to handle_sidecar_output, in order
    sentBy,       \* history, per caller: the responses whose tx.send reached its channel
    atClose,      \* history: the ids awaited in the pending table when the stream closed
    stdin,        \* the sidecar's stdin pipe: what child.write has put on it, in order
    table_lock,   \* holder of the Mutex of PendingRequests (Free, or a caller)
    stdin_lock,   \* holder of the Mutex of the CommandChild (Free, or a caller)
    stderr_buf,   \* the reader's residual buffer for stderr
    logged,       \* the stderr lines printed by eprintln!, in order
    stderr_chunks \* history: every stderr chunk received, in order

vars == <<REQUEST_ID, pending, sidecar, pc, id, chan, outcome, reader, terminated,
          stdout_buf, emitted, chunks, dispatched, sentBy, atClose,
          stdin, table_lock, stdin_lock, stderr_buf, logged, stderr_chunks>>

lockVars == <<table_lock, stdin_lock>>
stderrVars == <<stderr_buf, logged, stderr_chunks>>
callerVars == <<REQUEST_ID, sidecar, pc, id, outcome, stdin, lockVars>>
readerVars == <<reader, terminated, stdout_buf, emitted, chunks, dispatched, atClose,
                stderrVars>>

\* No task holds the lock.
Free == 0

Callers == 1..NumCalls

\* Option<T> as a set with at most one element.
None == {}
Some(v) == {v}
Unwrap(o) == CHOOSE v \in o : TRUE

\* Result<String, String>
Ok(s) == [ok |-> TRUE, s |-> s]
Err(s) == [ok |-> FALSE, s |-> s]

----------------------------------------------------------------------------
\* JSON values of the members the code reads.
JNum(n) == [ty |-> "num", n |-> n, s |-> ""]
JStr(s) == [ty |-> "str", n |-> 0, s |-> s]
\* an object {"code": code, "message": msg}
JErr(code, msg) == [ty |-> "obj", n |-> code, s |-> msg]

\* The members of a JSON object: each absent (None) or present with a value.
Fields(ev, i, res, er) == [event |-> ev, id |-> i, result |-> res, error |-> er]
NoFields == Fields(None, None, None, None)

\* Stream symbols.
Sym(k) == [k |-> k, doc |-> NoFields]
LF == Sym("LF")
CR == Sym("CR")
SP == Sym("SP")
X == Sym("x")
HI == Sym("hi")
LO == Sym("lo")
LB == Sym("{")
RB == Sym("}")
NUM == Sym("num")
Members(d) == [k |-> "fields", doc |-> d]

\* The text of a JSON object with members d, and a line holding it.
ObjText(d) == <<LB, Members(d), RB>>
Line(d) == ObjText(d) \o <<LF>>

----------------------------------------------------------------------------
\* String::from_utf8(line_bytes).is_ok(): every lead byte is followed by a
\* continuation byte and every continuation byte follows a lead byte.
from_utf8_ok(bytes) ==
    \A i \in 1..Len(bytes) :
        /\ bytes[i] = HI => (i < Len(bytes) /\ bytes[i + 1] = LO)
        /\ bytes[i] = LO => (i > 1 /\ bytes[i - 1] = HI)

\* stdout_buf.find('\n'): the position of the first newline, 0 if there is none.
find_newline(buf) ==
    IF \E i \in 1..Len(buf) : buf[i] = LF
    THEN CHOOSE i \in 1..Len(buf) :
             buf[i] = LF /\ \A j \in 1..(i - 1) : buf[j] # LF
    ELSE 0

\* if line.ends_with('\r') { line.pop(); }
strip_cr(line) ==
    IF Len(line) > 0 /\ line[Len(line)] = CR
    THEN SubSeq(line, 1, Len(line) - 1)
    ELSE line

\* The inner while loop of the Stdout arm: [buf, lines] after every complete
\* line has been cut off the front of buf.
RECURSIVE drain(_, _)
drain(buf, lines) ==
    LET pos == find_newline(buf) IN
    IF pos = 0 THEN [buf |-> buf, lines |-> lines]
    ELSE drain(SubSeq(buf, pos + 1, Len(buf)),
               Append(lines, strip_cr(SubSeq(buf, 1, pos - 1))))

----------------------------------------------------------------------------
IsWhite(sym) == sym \in {SP, CR, LF}

\* line.trim().is_empty()
is_blank(line) == \A i \in 1..Len(line) : IsWhite(line[i])

RECURSIVE Tokens(_)
Tokens(line) ==
    IF line = <<>> THEN <<>>
    ELSE IF IsWhite(Head(line)) THEN Tokens(Tail(line))
    ELSE <<Head(line)>> \o Tokens(Tail(line))

\* serde_json::from_str::<serde_json::Value>(line)
from_str_Value(line) ==
    LET t == Tokens(line) IN
    IF Len(t) = 3 /\ t[1] = LB /\ t[2].k = "fields" /\ t[3] = RB
    THEN [ok |-> TRUE, kind |-> "object", doc |-> t[2].doc]
    ELSE IF t = <<NUM>>
    THEN [ok |-> TRUE, kind |-> "number", doc |-> NoFields]
    ELSE [ok |-> FALSE, kind |-> "none", doc |-> NoFields]

\* value.get("event").and_then(|v| v.as_str())
event_name(value) ==
    IF value.kind = "object" /\ value.doc.event # None
       /\ Unwrap(value.doc.event).ty = "str"
    THEN Some(Unwrap(value.doc.event).s)
    ELSE None

\* serde_json::from_str::<RpcResponse>(line): unknown members are ignored, a
\* member of the wrong type fails the decoding.
from_str_RpcResponse(line) ==
    LET value == from_str_Value(line)
        d == value.doc
        typed == /\ value.ok /\ value.kind = "object"
                 /\ \A v \in d.id : v.ty = "num" /\ v.n >= 0
                 /\ \A v \in d.result : v.ty = "str"
                 /\ \A v \in d.error : v.ty = "obj"
    IN  IF typed
        THEN [ok |-> TRUE,
              id |-> {v.n : v \in d.id},
              result |-> {v.s : v \in d.result},
              error |-> {[code |-> v.n, message |-> v.s] : v \in d.error}]
        ELSE [ok |-> FALSE, id |-> None, result |-> None, error |-> None]

\* Mutant of response_result: a response with neither member is an error.
response_result_strict(response) ==
    IF response.error # None
    THEN Err(Unwrap(response.error).message)
    ELSE IF response.result # None THEN Ok(Unwrap(response.result))
    ELSE Err("empty response")

\* lines 135-139: the Result sent on the channel.
response_result(response) ==
    IF response.error # None
    THEN Err(Unwrap(response.error).message)
    ELSE IF response.result # None THEN Ok(Unwrap(response.result)) ELSE Ok("")

----------------------------------------------------------------------------
\* HashMap::insert(id, tx): an existing entry with the same key is replaced.
map_insert(map, k, c) ==
    [j \in DOMAIN map \cup {k} |-> IF j = k THEN c ELSE map[j]]

\* Mutant of map_remove: the entry with the smallest key is taken, whatever k.
map_remove_any(map, k) ==
    IF DOMAIN map # {}
    THEN LET j == CHOOSE j \in DOMAIN map : \A m \in DOMAIN map : j <= m
         IN  [tx |-> Some(map[j]), map |-> [m \in DOMAIN map \ {j} |-> map[m]]]
    ELSE [tx |-> None, map |-> map]

\* Mutant of map_remove: the entry is looked up and left in the table.
map_remove_keep(map, k) ==
    IF k \in DOMAIN map
    THEN [tx |-> Some(map[k]), map |-> map]
    ELSE [tx |-> None, map |-> map]

\* HashMap::remove(&id): the removed value, if any, and the remaining map.
map_remove(map, k) ==
    IF k \in DOMAIN map
    THEN [tx |-> Some(map[k]), map |-> [j \in DOMAIN map \ {k} |-> map[j]]]
    ELSE [tx |-> None, map |-> map]

\* The receiver of a caller's oneshot channel exists from line 81 until
\* send_message returns.
rx_alive(c) ==
    pc[c] \in {"insert", "inserting", "write", "writing", "writing_nl", "wait"}

\* tx.send(result): the value reaches the channel unless the receiver is gone.
tx_send(st, c, response) ==
    IF rx_alive(c)
    THEN [st EXCEPT !.chan[c] = Some(response_result(response)),
                    !.sentBy[c] = Append(@, response)]
    ELSE st

\* Mutant of handle_response: a response without id is routed to the oldest
\* pending call.
handle_response_noid(st, line) ==
    LET response == from_str_RpcResponse(line)
        k == IF response.id # None THEN Unwrap(response.id)
             ELSE IF DOMAIN st.pending # {}
             THEN CHOOSE j \in DOMAIN st.pending : \A m \in DOMAIN st.pending : j <= m
             ELSE 0
    IN  IF response.ok
        THEN LET rem == map_remove(st.pending, k) IN
             IF rem.tx # None
             THEN tx_send([st EXCEPT !.pending = rem.map], Unwrap(rem.tx), response)
             ELSE st
        ELSE st

\* lines 130-144: the response part of handle_sidecar_output.
handle_response(st, line) ==
    LET response == from_str_RpcResponse(line) IN
    IF response.ok /\ response.id # None
    THEN LET rem == map_remove(st.pending, Unwrap(response.id)) IN
         IF rem.tx # None
         THEN tx_send([st EXCEPT !.pending = rem.map], Unwrap(rem.tx), response)
         ELSE st
    ELSE st

\* Mutant of handle_event: the event is emitted but the function does not
\* return, so the line goes on to the response decoding.
handle_event_fallthrough(st, line) ==
    LET value == from_str_Value(line)
        name == IF value.ok THEN event_name(value) ELSE None
    IN  IF name = Some("agent_status")
        THEN [done |-> FALSE,
              st |-> [st EXCEPT !.emitted = Append(@, <<"agent:status", value.doc>>)]]
        ELSE IF name = Some("assistant_delta")
        THEN [done |-> FALSE,
              st |-> [st EXCEPT !.emitted = Append(@, <<"agent:delta", value.doc>>)]]
        ELSE [done |-> FALSE, st |-> st]

\* Mutant of handle_event: a document with any other string tag is forwarded
\* too, and the function returns.
handle_event_all(st, line) ==
    LET value == from_str_Value(line)
        name == IF value.ok THEN event_name(value) ELSE None
    IN  IF name = Some("agent_status")
        THEN [done |-> TRUE,
              st |-> [st EXCEPT !.emitted = Append(@, <<"agent:status", value.doc>>)]]
        ELSE IF name = Some("assistant_delta")
        THEN [done |-> TRUE,
              st |-> [st EXCEPT !.emitted = Append(@, <<"agent:delta", value.doc>>)]]
        ELSE IF name # None
        THEN [done |-> TRUE,
              st |-> [st EXCEPT !.emitted = Append(@, <<"agent:event", value.doc>>)]]
        ELSE [done |-> FALSE, st |-> st]

\* lines 116-127: the event part; [done, st].
handle_event(st, line) ==
    LET value == from_str_Value(line)
        name == IF value.ok THEN event_name(value) ELSE None
    IN  IF name = Some("agent_status")
        THEN [done |-> TRUE,
              st |-> [st EXCEPT !.emitted = Append(@, <<"agent:status", value.doc>>)]]
        ELSE IF name = Some("assistant_delta")
        THEN [done |-> TRUE,
              st |-> [st EXCEPT !.emitted = Append(@, <<"agent:delta", value.doc>>)]]
        ELSE [done |-> FALSE, st |-> st]

\* fn handle_sidecar_output(app, line), on st = [pending, chan, emitted, sentBy].
handle_sidecar_output(st, line) ==
    IF is_blank(line) THEN st
    ELSE LET ev == handle_event(st, line) IN
         IF ev.done THEN ev.st ELSE handle_response(st, line)

RECURSIVE handle_lines(_, _)
handle_lines(st, lines) ==
    IF lines = <<>> THEN st
    ELSE handle_lines(handle_sidecar_output(st, Head(lines)), Tail(lines))

----------------------------------------------------------------------------
EmptyMap == [k \in {} |-> 0]

Init ==
    /\ REQUEST_ID = 1
    /\ pending = EmptyMap
    /\ sidecar = "None"
    /\ pc = [c \in Callers |-> "idle"]
    /\ id = [c \in Callers |-> 0]
    /\ chan = [c \in Callers |-> None]
    /\ outcome = [c \in Callers |-> None]
    /\ reader = "unspawned"
    /\ terminated = FALSE
    /\ stdout_buf = <<>>
    /\ emitted = <<>>
    /\ chunks = <<>>
    /\ dispatched = <<>>
    /\ sentBy = [c \in Callers |-> <<>>]
    /\ atClose = {}
    /\ stdin = <<>>
    /\ table_lock = Free
    /\ stdin_lock = Free
    /\ stderr_buf = <<>>
    /\ logged = <<>>
    /\ stderr_chunks = <<>>

\* The setup hook (lines 157-221): store the child, spawn the reader.
Setup ==
    /\ reader = "unspawned"
    /\ stdin_lock = Free
    /\ sidecar' = "Some"
    /\ reader' = "running"
    /\ UNCHANGED <<REQUEST_ID, pending, pc, id, chan, outcome, terminated,
                   stdout_buf, emitted, chunks, dispatched, sentBy, atClose>>
    /\ UNCHANGED <<stdin, lockVars, stderrVars>>

Return(c, result) ==
    /\ pc' = [pc EXCEPT ![c] = "done"]
    /\ outcome' = [outcome EXCEPT ![c] = Some(result)]

\* Mutant of Issue: the counter is read and not advanced.
Issue_reuse(c, serOk) ==
    /\ pc[c] = "idle"
    /\ \A d \in Callers : d < c => pc[d] # "idle"
    /\ id' = [id EXCEPT ![c] = REQUEST_ID]
    /\ IF serOk
       THEN pc' = [pc EXCEPT ![c] = "insert"] /\ UNCHANGED outcome
       ELSE Return(c, Err("serialize"))
    /\ UNCHANGED <<REQUEST_ID, pending, sidecar, chan, sentBy>>
    /\ UNCHANGED readerVars
    /\ UNCHANGED <<stdin, lockVars>>

\* lines 63-81: fetch_add, then serde_json::to_string (serOk: it succeeded).
\* The invocations are interchangeable: they are numbered in the order in
\* which they reach fetch_add.
Issue(c, serOk) ==
    /\ pc[c] = "idle"
    /\ \A d \in Callers : d < c => pc[d] # "idle"
    /\ id' = [id EXCEPT ![c] = REQUEST_ID]
    /\ REQUEST_ID' = REQUEST_ID + 1
    /\ IF serOk
       THEN pc' = [pc EXCEPT ![c] = "insert"] /\ UNCHANGED outcome
       ELSE Return(c, Err("serialize"))
    /\ UNCHANGED <<pending, sidecar, chan, sentBy>>
    /\ UNCHANGED readerVars
    /\ UNCHANGED <<stdin, lockVars>>

\* lines 84-88: map.insert(id, tx) under the table's lock.
Insert(c) ==
    /\ pc[c] = "insert"
    /\ pending' = map_insert(pending, id[c], c)
    /\ pc' = [pc EXCEPT ![c] = "write"]
    /\ UNCHANGED <<REQUEST_ID, sidecar, id, chan, outcome, sentBy>>
    /\ UNCHANGED readerVars
    /\ UNCHANGED <<stdin, lockVars>>

\* What a request puts on the pipe: its JSON document, then the newline.
Doc(k) == [id |-> k, part |-> "json"]
Nl(k) == [id |-> k, part |-> "nl"]

\* lines 93-96: child.write(&data) succeeded, under the lock of the child.
Write(c) ==
    /\ pc[c] = "write"
    /\ sidecar = "Some"
    /\ stdin' = stdin \o <<Doc(id[c]), Nl(id[c])>>
    /\ pc' = [pc EXCEPT ![c] = "wait"]
    /\ UNCHANGED <<REQUEST_ID, pending, sidecar, id, chan, outcome, sentBy>>
    /\ UNCHANGED readerVars
    /\ UNCHANGED lockVars

\* line 96: child.write(&data) failed, before or after a part of the data
\* went out.
WriteFail(c) ==
    /\ pc[c] = "write"
    /\ sidecar = "Some"
    /\ \E part \in {<<>>, <<Doc(id[c])>>} : stdin' = stdin \o part
    /\ Return(c, Err("Failed to write to sidecar"))
    /\ UNCHANGED <<REQUEST_ID, pending, sidecar, id, chan, sentBy>>
    /\ UNCHANGED readerVars
    /\ UNCHANGED lockVars

\* lines 97-99: the guard holds None.
NoSidecar(c) ==
    /\ pc[c] = "write"
    /\ sidecar = "None"
    /\ Return(c, Err("Sidecar not running"))
    /\ UNCHANGED <<REQUEST_ID, pending, sidecar, id, chan, sentBy>>
    /\ UNCHANGED readerVars
    /\ UNCHANGED <<stdin, lockVars>>

\* line 104: the receiver yields the value sent.  (Line 105, a sender dropped
\* without a send, needs an entry dropped from the table unsent: no code does.)
Receive(c) ==
    /\ pc[c] = "wait"
    /\ chan[c] # None
    /\ Return(c, Unwrap(chan[c]))
    /\ chan' = [chan EXCEPT ![c] = None]
    /\ UNCHANGED <<REQUEST_ID, pending, sidecar, id, sentBy>>
    /\ UNCHANGED readerVars
    /\ UNCHANGED <<stdin, lockVars>>

\* Mutant of TimedOut: the receiver is awaited without a timer.
TimedOut_never(c) ==
    /\ pc[c] = "wait"
    /\ FALSE
    /\ UNCHANGED vars

\* line 106: the 60 s elapsed and the receiver, polled first, held no value.
TimedOut(c) ==
    /\ pc[c] = "wait"
    /\ chan[c] = None
    /\ Return(c, Err("Request timed out"))
    /\ UNCHANGED <<REQUEST_ID, pending, sidecar, id, chan, sentBy>>
    /\ UNCHANGED readerVars
    /\ UNCHANGED <<stdin, lockVars>>

----------------------------------------------------------------------------
\* The same steps of send_message with the two locks as state: a step that
\* takes a lock, and the steps made while holding it.

\* line 86: pending.lock().
LockTable(c) ==
    /\ pc[c] = "insert"
    /\ table_lock = Free
    /\ table_lock' = c
    /\ pc' = [pc EXCEPT ![c] = "inserting"]
    /\ UNCHANGED <<REQUEST_ID, pending, sidecar, id, chan, outcome, sentBy>>
    /\ UNCHANGED <<stdin, stdin_lock>>
    /\ UNCHANGED readerVars

\* Mutant of InsertUnlock: the guard is released and nothing was inserted.
InsertUnlock_skip(c) ==
    /\ pc[c] = "inserting"
    /\ table_lock' = Free
    /\ pc' = [pc EXCEPT ![c] = "write"]
    /\ UNCHANGED <<REQUEST_ID, pending, sidecar, id, chan, outcome, sentBy>>
    /\ UNCHANGED <<stdin, stdin_lock>>
    /\ UNCHANGED readerVars

\* Mutant of InsertUnlock: the guard of the table outlives the block.
InsertUnlock_keep(c) ==
    /\ pc[c] = "inserting"
    /\ pending' = map_insert(pending, id[c], c)
    /\ pc' = [pc EXCEPT ![c] = "write"]
    /\ UNCHANGED <<REQUEST_ID, sidecar, id, chan, outcome, sentBy>>
    /\ UNCHANGED <<stdin, table_lock, stdin_lock>>
    /\ UNCHANGED readerVars

\* lines 87-88: map.insert(id, tx); the guard is dropped at the end of the block.
InsertUnlock(c) ==
    /\ pc[c] = "inserting"
    /\ pending' = map_insert(pending, id[c], c)
    /\ table_lock' = Free
    /\ pc' = [pc EXCEPT ![c] = "write"]
    /\ UNCHANGED <<REQUEST_ID, sidecar, id, chan, outcome, sentBy>>
    /\ UNCHANGED <<stdin, stdin_lock>>
    /\ UNCHANGED readerVars

\* Mutant of LockStdin: the child is reached without waiting for the lock.
LockStdin_unguarded(c) ==
    /\ pc[c] = "write"
    /\ stdin_lock' = c
    /\ pc' = [pc EXCEPT ![c] = "writing"]
    /\ UNCHANGED <<REQUEST_ID, pending, sidecar, id, chan, outcome, sentBy>>
    /\ UNCHANGED <<stdin, table_lock>>
    /\ UNCHANGED readerVars

\* line 93: sidecar_stdin.lock().
LockStdin(c) ==
    /\ pc[c] = "write"
    /\ stdin_lock = Free
    /\ stdin_lock' = c
    /\ pc' = [pc EXCEPT ![c] = "writing"]
    /\ UNCHANGED <<REQUEST_ID, pending, sidecar, id, chan, outcome, sentBy>>
    /\ UNCHANGED <<stdin, table_lock>>
    /\ UNCHANGED readerVars

\* line 96: child.write(&data) puts the data on the pipe in one or more
\* writes; the first takes the document.
WriteSome(c) ==
    /\ pc[c] = "writing"
    /\ sidecar = "Some"
    /\ stdin' = Append(stdin, Doc(id[c]))
    /\ pc' = [pc EXCEPT ![c] = "writing_nl"]
    /\ UNCHANGED <<REQUEST_ID, pending, sidecar, id, chan, outcome, sentBy>>
    /\ UNCHANGED lockVars
    /\ UNCHANGED readerVars

\* lines 96-100: the rest of the data is written; the guard is dropped.
WriteRest(c) ==
    /\ pc[c] = "writing_nl"
    /\ stdin' = Append(stdin, Nl(id[c]))
    /\ stdin_lock' = Free
    /\ pc' = [pc EXCEPT ![c] = "wait"]
    /\ UNCHANGED <<REQUEST_ID, pending, sidecar, id, chan, outcome, sentBy>>
    /\ UNCHANGED table_lock
    /\ UNCHANGED readerVars

\* line 96: child.write(&data) fails, before or after a part of the data
\* went out; `?` returns and the guard is dropped.
WriteFailLocked(c) ==
    /\ pc[c] \in {"writing", "writing_nl"}
    /\ sidecar = "Some"
    /\ Return(c, Err("Failed to write to sidecar"))
    /\ stdin_lock' = Free
    /\ UNCHANGED <<REQUEST_ID, pending, sidecar, id, chan, sentBy>>
    /\ UNCHANGED <<stdin, table_lock>>
    /\ UNCHANGED readerVars

\* lines 97-99: the guard holds None; the return drops the guard.
NoSidecarLocked(c) ==
    /\ pc[c] = "writing"
    /\ sidecar = "None"
    /\ Return(c, Err("Sidecar not running"))
    /\ stdin_lock' = Free
    /\ UNCHANGED <<REQUEST_ID, pending, sidecar, id, chan, sentBy>>
    /\ UNCHANGED <<stdin, table_lock>>
    /\ UNCHANGED readerVars

----------------------------------------------------------------------------
RECURSIVE Flatten(_)
Flatten(seqs) == IF seqs = <<>> THEN <<>> ELSE Head(seqs) \o Flatten(Tail(seqs))

\* lines 183-195: CommandEvent::Stdout(line_bytes).
Stdout(chunk) ==
    /\ reader = "running"
    /\ chunks' = Append(chunks, chunk)
    /\ IF from_utf8_ok(chunk)
       THEN LET d == drain(stdout_buf \o chunk, <<>>)
                st == handle_lines([pending |-> pending, chan |-> chan,
                                    emitted |-> emitted, sentBy |-> sentBy],
                                   d.lines)
            IN  /\ stdout_buf' = d.buf
                /\ dispatched' = dispatched \o d.lines
                /\ pending' = st.pending
                /\ chan' = st.chan
                /\ emitted' = st.emitted
                /\ sentBy' = st.sentBy
       ELSE UNCHANGED <<stdout_buf, dispatched, pending, chan, emitted, sentBy>>
    /\ UNCHANGED <<reader, terminated, atClose, stderrVars>>
    /\ UNCHANGED callerVars

\* Mutant of Stderr: the stderr lines are handed to handle_sidecar_output.
Stderr_decoded(chunk) ==
    /\ reader = "running"
    /\ stderr_chunks' = Append(stderr_chunks, chunk)
    /\ IF from_utf8_ok(chunk)
       THEN LET d == drain(stderr_buf \o chunk, <<>>)
                st == handle_lines([pending |-> pending, chan |-> chan,
                                    emitted |-> emitted, sentBy |-> sentBy],
                                   d.lines)
            IN  /\ stderr_buf' = d.buf
                /\ logged' = logged \o d.lines
                /\ pending' = st.pending
                /\ chan' = st.chan
                /\ emitted' = st.emitted
                /\ sentBy' = st.sentBy
       ELSE UNCHANGED <<stderr_buf, logged, pending, chan, emitted, sentBy>>
    /\ UNCHANGED <<reader, terminated, stdout_buf, chunks, dispatched, atClose>>
    /\ UNCHANGED callerVars

\* lines 196-208: CommandEvent::Stderr(line_bytes); each line is printed.
Stderr(chunk) ==
    /\ reader = "running"
    /\ stderr_chunks' = Append(stderr_chunks, chunk)
    /\ IF from_utf8_ok(chunk)
       THEN LET d == drain(stderr_buf \o chunk, <<>>)
            IN  /\ stderr_buf' = d.buf
                /\ logged' = logged \o d.lines
       ELSE UNCHANGED <<stderr_buf, logged>>
    /\ UNCHANGED <<reader, terminated, stdout_buf, emitted, chunks, dispatched, atClose>>
    /\ UNCHANGED <<pending, chan, sentBy>>
    /\ UNCHANGED callerVars

\* line 133: the line makes handle_sidecar_output lock the table.
locks_table(line) ==
    /\ ~is_blank(line)
    /\ ~handle_event([pending |-> pending, chan |-> chan,
                      emitted |-> emitted, sentBy |-> sentBy], line).done
    /\ from_str_RpcResponse(line).ok
    /\ from_str_RpcResponse(line).id # None

\* The Stdout arm where the lock of the table is state: a line that reaches
\* line 133 waits for the lock.
StdoutLocked(chunk) ==
    /\ from_utf8_ok(chunk) =>
           LET lines == drain(stdout_buf \o chunk, <<>>).lines IN
           (\E i \in 1..Len(lines) : locks_table(lines[i])) => table_lock = Free
    /\ Stdout(chunk)

\* lines 212-214: CommandEvent::Terminated(status) is logged.
Terminated ==
    /\ reader = "running"
    /\ ~terminated
    /\ terminated' = TRUE
    /\ UNCHANGED <<reader, stdout_buf, emitted, chunks, dispatched, atClose, stderrVars>>
    /\ UNCHANGED <<pending, chan, sentBy>>
    /\ UNCHANGED callerVars

\* line 181: rx.recv() yields None once the sidecar is gone; the task ends.
StreamClosed ==
    /\ reader = "running"
    /\ terminated
    /\ reader' = "closed"
    /\ atClose' = {k \in DOMAIN pending : pc[pending[k]] = "wait"}
    /\ UNCHANGED <<terminated, stdout_buf, emitted, chunks, dispatched, stderrVars>>
    /\ UNCHANGED <<pending, chan, sentBy>>
    /\ UNCHANGED callerVars

----------------------------------------------------------------------------
\* What the sidecar writes in the correlation specification: one response
\* line per chunk, for a caller's id or for an id no caller holds (0).
ResultText(k) == "r" \o ToString(k)
Resp(k) == Fields(None, Some(JNum(k)), Some(JStr(ResultText(k))), None)
ErrResp(k) == Fields(None, Some(JNum(k)), None, Some(JErr(1, "e" \o ToString(k))))

WorkerChunks == {Line(Resp(k)) : k \in 0..NumCalls} \cup {Line(ErrResp(1))}

CallBy(cs) ==
    \E c \in cs :
        \/ \E serOk \in BOOLEAN : Issue(c, serOk)
        \/ Insert(c)
        \/ Write(c)
        \/ WriteFail(c)
        \/ NoSidecar(c)
        \/ Receive(c)
        \/ TimedOut(c)

Next ==
    \/ Setup
    \/ CallBy(Callers)
    \/ \E chunk \in WorkerChunks : Len(chunks) < MaxChunks /\ Stdout(chunk)
    \/ Terminated
    \/ StreamClosed

Spec == Init /\ [][Next]_vars

\* The specification with the locks: the callers step by step, the reader
\* with one response line per chunk.
CallLocked(c) ==
    \/ \E serOk \in BOOLEAN : Issue(c, serOk)
    \/ LockTable(c)
    \/ InsertUnlock(c)
    \/ LockStdin(c)
    \/ WriteSome(c)
    \/ WriteRest(c)
    \/ WriteFailLocked(c)
    \/ NoSidecarLocked(c)
    \/ Receive(c)
    \/ TimedOut(c)

LockChunks == {Line(Resp(k)) : k \in 1..NumCalls}

NextLocks ==
    \/ Setup
    \/ \E c \in Callers : CallLocked(c)
    \/ \E chunk \in LockChunks : Len(chunks) < MaxLockChunks /\ StdoutLocked(chunk)

SpecLocks == Init /\ [][NextLocks]_vars

\* The isolation specification: calls in flight together, and a sidecar
\* that writes their responses, a line that is no JSON, and a response
\* behind a line that is not UTF-8.
IsoChunks ==
    {Line(Resp(k)) : k \in Callers} \cup {<<X, LF>>, <<HI, LF>> \o Line(Resp(1))}

NextIso ==
    \/ Setup
    \/ CallBy(Callers)
    \/ \E chunk \in IsoChunks : Len(chunks) < MaxIsoChunks /\ Stdout(chunk)

SpecIso == Init /\ [][NextIso]_vars

----------------------------------------------------------------------------
\* What the sidecar writes in the classification specification: event
\* documents that also carry the members of a response, a response without
\* id, malformed lines, and a response line delivered whole, in two pieces,
\* or behind a line that is not UTF-8.
StatusEv(k) ==
    Fields(Some(JStr("agent_status")), Some(JNum(k)), Some(JStr(ResultText(k))), None)
DeltaEv(k) ==
    Fields(Some(JStr("assistant_delta")), Some(JNum(k)), None, Some(JErr(1, "e")))
OtherEv(k) ==
    Fields(Some(JStr("tool_call")), Some(JNum(k)), Some(JStr(ResultText(k))), None)
Ready == Fields(None, None, Some(JStr("ready")), None)
BadId == Fields(None, Some(JStr("1")), Some(JStr("r")), None)
\* a response with an id and neither result nor error
Bare(k) == Fields(None, Some(JNum(k)), None, None)

ClassifyChunks ==
    {Line(StatusEv(1)), Line(DeltaEv(1)), Line(OtherEv(1)), Line(Ready),
     Line(BadId), <<X, LF>>, <<NUM, CR, LF>>, <<SP, LF>>,
     Line(Resp(1)), <<LB, Members(Resp(1))>>, <<RB, LF>>,
     <<HI, LF>> \o Line(Resp(1)), Line(ErrResp(1)), Line(Bare(1))}

NextClassify ==
    \/ Setup
    \/ CallBy(1..NumClassifyCalls)
    \/ \E chunk \in ClassifyChunks : Len(chunks) < MaxClassifyChunks /\ Stdout(chunk)
    \/ Terminated
    \/ StreamClosed

SpecClassify == Init /\ [][NextClassify]_vars

\* The specification of the two streams: on either, a response and an event
\* for the id of a call, whole, and the response in two pieces.
StreamChunks ==
    {Line(Resp(1)), Line(StatusEv(1)), <<LB, Members(Resp(1))>>, <<RB, LF>>}

NextStreams ==
    \/ Setup
    \/ CallBy(1..NumClassifyCalls)
    \/ \E chunk \in StreamChunks :
           Len(chunks) + Len(stderr_chunks) < MaxStreamChunks /\ Stdout(chunk)
    \/ \E chunk \in StreamChunks :
           Len(chunks) + Len(stderr_chunks) < MaxStreamChunks /\ Stderr(chunk)

SpecStreams == Init /\ [][NextStreams]_vars

\* What the sidecar writes in the byte-level specification of the reader:
\* every chunk of one or two bytes.
Bytes == {X, LF, CR, HI, LO}
ByteChunks == {<<a>> : a \in Bytes} \cup {<<a, b>> : a \in Bytes, b \in Bytes}

NextDemux ==
    \/ Setup
    \/ \E chunk \in ByteChunks : Len(chunks) < MaxByteChunks /\ Stdout(chunk)

SpecDemux == Init /\ [][NextDemux]_vars

----------------------------------------------------------------------------
\* The failures send_message produces itself; any other outcome was taken
\* from the channel.
LocalFailures ==
    {Err("serialize"), Err("Failed to write to sidecar"),
     Err("Sidecar not running"), Err("Request timed out")}

FromResponse(c) == outcome[c] # None /\ Unwrap(outcome[c]) \notin LocalFailures
TimedOutCall(c) == outcome[c] = Some(Err("Request timed out"))

\* The lines a step hands to handle_sidecar_output.
NewLines == SubSeq(dispatched', Len(dispatched) + 1, Len(dispatched'))
StdoutStep == chunks' # chunks

\* The ids of the well-typed responses among the lines.
ResponseIds(lines) ==
    UNION {from_str_RpcResponse(lines[i]).id : i \in 1..Len(lines)}

\* C1: exactly-once resolution.  Every entry send_message inserts is removed
\* by exactly one of the response delivery and the timeout path: once a call
\* has come back from its wait, by a response or by the timeout, the table no
\* longer holds its entry.
C1_ExactlyOnceResolution ==
    \A c \in Callers :
        (pc[c] = "done" /\ (FromResponse(c) \/ TimedOutCall(c)))
            => id[c] \notin DOMAIN pending

\* C2: correlation exclusivity.  Whatever the order of the responses, every
\* response sent on a caller's channel carries that caller's id, and an
\* outcome a caller took from its channel is the outcome of such a response.
C2_CorrelationExclusivity ==
    \A c \in Callers :
        /\ \A i \in 1..Len(sentBy[c]) : sentBy[c][i].id = Some(id[c])
        /\ chan[c] # None =>
               \E i \in 1..Len(sentBy[c]) :
                   chan[c] = Some(response_result(sentBy[c][i]))
        /\ FromResponse(c) =>
               \E i \in 1..Len(sentBy[c]) :
                   /\ sentBy[c][i].id = Some(id[c])
                   /\ outcome[c] = Some(response_result(sentBy[c][i]))

\* Two calls outstanding, answered in the reverse of the issue order, each
\* caller holding the result of its own id.
C2_Witness ==
    /\ chunks = <<Line(Resp(2)), Line(Resp(1))>>
    /\ \A c \in {1, 2} :
           /\ id[c] \in {1, 2}
           /\ outcome[c] = Some(Ok(ResultText(id[c])))

\* C3: a call with no matching response returns the timeout failure, and a
\* response for its id that arrives afterwards is a no-op: nothing is
\* delivered and no state of the correlator changes.
C3_LateResponseNoOp ==
    [][\A c \in Callers :
          (/\ TimedOutCall(c)
           /\ StdoutStep
           /\ ResponseIds(NewLines) = {id[c]})
              => UNCHANGED <<pending, chan, sentBy, emitted>>]_vars

\* C4: at most one delivery.  No channel is sent more than one response; a
\* response that finds no entry for its id (unknown, or already answered)
\* delivers nothing and leaves the table as it was; a response that finds
\* the entry removes it, so every later response for that id finds none.
C4_AtMostOneDelivery ==
    [][/\ \A c \in Callers : Len(sentBy'[c]) <= 1
       /\ StdoutStep =>
              /\ ResponseIds(NewLines) \cap DOMAIN pending' = {}
              /\ ResponseIds(NewLines) \cap DOMAIN pending = {}
                     => UNCHANGED <<pending, chan, sentBy, emitted>>]_vars

\* The same response twice: the caller was sent the first and only the first.
C4_Witness ==
    /\ chunks = <<Line(Resp(1)), Line(Resp(1))>>
    /\ Len(dispatched) = 2
    /\ \E c \in Callers : id[c] = 1 /\ Len(sentBy[c]) = 1 /\ pc[c] = "wait"

\* C10: when the stream closes, the pending table is swept: no call that
\* was awaiting its response at that moment keeps its entry or keeps waiting.
C10_SweptOnClose ==
    reader = "closed" =>
        /\ atClose \cap DOMAIN pending = {}
        /\ \A c \in Callers : id[c] \in atClose => pc[c] # "wait"

----------------------------------------------------------------------------
\* The lines of a stream, by position: the segments that end at a newline,
\* each without the newline and without one carriage return before it, and
\* the content behind the last newline.
Newlines(stream) == {i \in 1..Len(stream) : stream[i] = LF}
NthNewline(stream, n) ==
    CHOOSE p \in Newlines(stream) :
        Cardinality({q \in Newlines(stream) : q <= p}) = n
SegmentEnd(stream, p) == IF p > 1 /\ stream[p - 1] = CR THEN p - 2 ELSE p - 1
SegmentBefore(stream, n) ==
    LET p == NthNewline(stream, n)
        from == IF n = 1 THEN 1 ELSE NthNewline(stream, n - 1) + 1
    IN  IF from > p - 1 THEN <<>>
        ELSE SubSeq(stream, from, SegmentEnd(stream, p))
StreamLines(stream) ==
    [n \in 1..Cardinality(Newlines(stream)) |-> SegmentBefore(stream, n)]
StreamRest(stream) ==
    IF Newlines(stream) = {} THEN stream
    ELSE SubSeq(stream, NthNewline(stream, Cardinality(Newlines(stream))) + 1,
                Len(stream))

\* C5: chunk-boundary invariance.  However a stream of text is split into
\* chunks, the lines handed to handle_sidecar_output are the newline-
\* terminated segments of the concatenated stream, in order, each with one
\* trailing carriage return stripped, and what follows the last newline is
\* still in the buffer.
C5_ChunkBoundaryInvariance ==
    from_utf8_ok(Flatten(chunks)) =>
        /\ dispatched = StreamLines(Flatten(chunks))
        /\ stdout_buf = StreamRest(Flatten(chunks))

----------------------------------------------------------------------------
Recognized == {"agent_status", "assistant_delta"}

\* The string event tag of the document on a line, if it has one.
TagOf(line) ==
    LET value == from_str_Value(line) IN
    IF value.ok THEN event_name(value) ELSE None

HasRecognizedTag(line) == TagOf(line) # None /\ TagOf(line) \subseteq Recognized
HasOtherTag(line) == TagOf(line) # None /\ ~(TagOf(line) \subseteq Recognized)

\* The event the sink is handed for a line with a recognized tag.
EventOf(line) ==
    <<IF TagOf(line) = Some("agent_status") THEN "agent:status" ELSE "agent:delta",
      from_str_Value(line).doc>>
EventsOf(lines) == [i \in 1..Len(lines) |-> EventOf(lines[i])]

All(lines, P(_)) == lines # <<>> /\ \A i \in 1..Len(lines) : P(lines[i])

\* C6: a document tagged agent_status or assistant_delta is forwarded to
\* the event sink and is not consumed as a response: the pending table and
\* every channel stay as they were, whatever id, result or error it carries.
C6_EventNotResponse ==
    [][(StdoutStep /\ All(NewLines, HasRecognizedTag)) =>
           /\ emitted' = emitted \o EventsOf(NewLines)
           /\ UNCHANGED <<pending, chan, sentBy, outcome>>]_vars

\* An event carrying the id and a result of a call was forwarded, and the
\* call is still waiting with its entry in the table.
C6_Witness ==
    /\ chunks = <<Line(StatusEv(1))>>
    /\ emitted = <<<<"agent:status", StatusEv(1)>>>>
    /\ \E c \in Callers : id[c] = 1 /\ pc[c] = "wait" /\ 1 \in DOMAIN pending

IdlessResponse(line) ==
    /\ ~is_blank(line)
    /\ ~HasRecognizedTag(line)
    /\ from_str_RpcResponse(line).ok
    /\ from_str_RpcResponse(line).id = None

\* C8: a response without id resolves no pending call and has no effect:
\* the pending table, every channel and outcome, and the event sink are
\* unchanged.
C8_IdlessResponseNoEffect ==
    [][(StdoutStep /\ All(NewLines, IdlessResponse)) =>
           UNCHANGED <<pending, chan, sentBy, outcome, emitted>>]_vars

\* A response without id was handled while a call was waiting, and the call
\* still waits with its entry in the table.
C8_Witness ==
    /\ chunks = <<Line(Ready)>>
    /\ dispatched = <<ObjText(Ready)>>
    /\ \E c \in Callers : pc[c] = "wait" /\ id[c] \in DOMAIN pending /\ chan[c] = None

\* A line the handler acts on: a recognized event or a response with an id.
Effective(line) ==
    \/ HasRecognizedTag(line)
    \/ from_str_RpcResponse(line).ok /\ from_str_RpcResponse(line).id # None

\* C9: malformed input is discarded without ending the reader and without
\* corrupting the reconstruction of lines: the well-formed lines handed to
\* handle_sidecar_output are the well-formed lines of the stream, in order,
\* as if the malformed input had not been there.
C9_MalformedInputHarmless ==
    SelectSeq(dispatched, Effective)
        = SelectSeq(StreamLines(Flatten(chunks)), Effective)

----------------------------------------------------------------------------
\* The runtime keeps polling every invocation: a call that has its id goes on
\* to the insert, a call at the pipe finishes its write one way or the
\* other, and a call that waits is woken by its channel or by the 60 s timer.
Progress(c) ==
    /\ WF_vars(Insert(c))
    /\ WF_vars(Write(c) \/ WriteFail(c) \/ NoSidecar(c))
    /\ WF_vars(Receive(c) \/ TimedOut(c))

NextLive ==
    \/ Setup
    \/ CallBy(Callers)
    \/ \E chunk \in WorkerChunks : Len(chunks) < MaxLiveChunks /\ Stdout(chunk)
    \/ Terminated
    \/ StreamClosed

SpecLive == Init /\ [][NextLive]_vars /\ \A c \in Callers : Progress(c)

\* The outcomes send_message can return to caller c.
Outcomes(c) ==
    LocalFailures \cup {Err("Request cancelled")}
        \cup {response_result(sentBy[c][i]) : i \in 1..Len(sentBy[c])}

Prescribed(response) ==
    IF \E e \in response.error : TRUE
    THEN [ok |-> FALSE, s |-> (CHOOSE e \in response.error : TRUE).message]
    ELSE [ok |-> TRUE,
          s |-> IF response.result = {} THEN ""
                ELSE CHOOSE t \in response.result : TRUE]

\* C12: the outcome of a response with a registered id: with an error
\* object, the failure with exactly that error's message; otherwise success
\* with the result string, the empty string when there is neither.
C12_OutcomeMapping ==
    \A c \in Callers :
        /\ chan[c] # None => chan[c] = {Prescribed(sentBy[c][1])}
        /\ FromResponse(c) => outcome[c] = {Prescribed(sentBy[c][1])}

\* A call answered by a response with neither result nor error returned
\* success with the empty string.
C12_Witness ==
    /\ chunks = <<Line(Bare(1))>>
    /\ \E c \in Callers : id[c] = 1 /\ pc[c] = "done" /\ outcome[c] = Some(Ok(""))

\* The failures send_message returns before it waits.
ImmediateFailures ==
    {Err("serialize"), Err("Failed to write to sidecar"), Err("Sidecar not running")}

\* C13: no leaked registration on an immediate failure.  After send_message
\* has failed because the request could not be serialized, the pipe is
\* absent or the write failed, the table holds no entry for the call's id.
C13_NoLeakOnImmediateFailure ==
    \A c \in Callers :
        (outcome[c] # None /\ Unwrap(outcome[c]) \in ImmediateFailures)
            => id[c] \notin DOMAIN pending

\* The calls that still await an outcome.
Awaiting == {c \in Callers : pc[c] \in {"write", "writing", "writing_nl", "wait"}}

\* C15: when the timeout fires first the stale entry is removed: once
\* send_message has returned the timeout failure for an id the table holds
\* no entry for it, and the table has no more entries than there are calls
\* still awaiting an outcome.
C15_TimeoutRemovesEntry ==
    \A c \in Callers :
        TimedOutCall(c) =>
            /\ id[c] \notin DOMAIN pending
            /\ Cardinality(DOMAIN pending) <= Cardinality(Awaiting)

Issued == {c \in Callers : pc[c] # "idle"}

\* C16: request ids are unique and strictly increasing: every id is at
\* least 1 and below the counter, no two calls, returned or not, hold the
\* same id, a later call holds a larger id, and every key of the table is
\* the id of the one call it was inserted for.
C16_UniqueIncreasingIds ==
    /\ REQUEST_ID = 1 + Cardinality(Issued)
    /\ \A c \in Issued : 1 <= id[c] /\ id[c] < REQUEST_ID
    /\ \A c, d \in Issued : c # d => id[c] # id[d]
    /\ \A c, d \in Issued : c < d => id[c] < id[d]
    /\ \A k \in DOMAIN pending :
           /\ 1 <= k /\ k < REQUEST_ID
           /\ pending[k] \in Issued /\ id[pending[k]] = k
    /\ Cardinality(DOMAIN pending) <= Cardinality(Issued)

\* One call has returned, a later one holds the next id and is registered.
C16_Witness ==
    /\ pc[1] = "done" /\ id[1] = 1
    /\ pc[2] = "wait" /\ id[2] = 2
    /\ 2 \in DOMAIN pending
    /\ REQUEST_ID = 3

----------------------------------------------------------------------------
\* A byte of the request with the id is on the pipe.
OnWire(k) == \E i \in 1..Len(stdin) : stdin[i].id = k

\* C14: registration precedes the write.  The insertion of a request's
\* entry is complete, and the lock of the table released, before any byte of
\* the request is on the pipe; so the id of a written request is in the
\* table unless a response for it has been handled, and a first response
\* for a written request finds the entry and is sent to its caller.
C14_RegistrationPrecedesWrite ==
    /\ [](\A c \in Callers :
              OnWire(id[c]) =>
                  /\ pc[c] \notin {"idle", "insert", "inserting"}
                  /\ table_lock # c
                  /\ id[c] \in DOMAIN pending \/ id[c] \in ResponseIds(dispatched))
    /\ [][StdoutStep =>
              \A c \in Callers :
                  (/\ OnWire(id[c])
                   /\ id[c] \in ResponseIds(NewLines)
                   /\ id[c] \notin ResponseIds(dispatched))
                      => /\ id[c] \in DOMAIN pending
                         /\ id[c] \notin DOMAIN pending'
                         /\ rx_alive(c) => Len(sentBy'[c]) = Len(sentBy[c]) + 1]_vars

\* A request was written in full, the response for it came afterwards and
\* its caller returned the result.
C14_Witness ==
    \E c \in Callers :
        /\ \E i \in 1..Len(stdin) : stdin[i] = Nl(id[c])
        /\ id[c] \in ResponseIds(dispatched)
        /\ outcome[c] = Some(Ok(ResultText(id[c])))

\* The call came back from child.write with success.
Written(c) ==
    \/ pc[c] = "wait"
    \/ pc[c] = "done" /\ (FromResponse(c) \/ TimedOutCall(c))

\* C17: writes are atomic with respect to other writers.  The document of a
\* request and its newline are next to each other on the pipe, the bytes of
\* one request are never between the bytes of another, and a request whose
\* write succeeded is on the pipe once, as the document and one newline.
C17_AtomicWrites ==
    /\ \A i \in 1..Len(stdin) :
           stdin[i].part = "nl" => i > 1 /\ stdin[i - 1] = Doc(stdin[i].id)
    /\ \A i, j, k \in 1..Len(stdin) :
           (i < j /\ j < k /\ stdin[i].id = stdin[k].id) => stdin[j].id = stdin[i].id
    /\ \A c \in Callers :
           Written(c) =>
               \E i \in 1..(Len(stdin) - 1) :
                   /\ stdin[i] = Doc(id[c]) /\ stdin[i + 1] = Nl(id[c])
                   /\ \A j \in 1..Len(stdin) : stdin[j].id = id[c] => j \in {i, i + 1}

\* Two requests were written while both callers were past their insertion,
\* the later call first.
C17_Witness ==
    /\ stdin = <<Doc(2), Nl(2), Doc(1), Nl(1)>>
    /\ pc[1] = "wait" /\ pc[2] = "wait"

\* C18: lock discipline.  No call holds the lock of the table or of the pipe
\* while it awaits its completion or the timeout, and none holds both; a
\* lock that is held is held by a call inside the block that takes it, and
\* that call can always go on to release it, so no call and no reader waits
\* for a lock behind a call that is waiting.
C18_LockDiscipline ==
    /\ \A c \in Callers :
           pc[c] \in {"idle", "insert", "wait", "done"} =>
               table_lock # c /\ stdin_lock # c
    /\ \A c \in Callers : ~(table_lock = c /\ stdin_lock = c)
    /\ table_lock # Free =>
           /\ pc[table_lock] = "inserting"
           /\ ENABLED InsertUnlock(table_lock)
    /\ stdin_lock # Free =>
           /\ pc[stdin_lock] \in {"writing", "writing_nl"}
           /\ ENABLED (\/ WriteSome(stdin_lock) \/ WriteRest(stdin_lock)
                       \/ WriteFailLocked(stdin_lock) \/ NoSidecarLocked(stdin_lock))

\* While the first call waited for its response the reader resolved the
\* second, which had issued its request in the meantime.
C18_Witness ==
    /\ pc[1] = "wait" /\ chan[1] = None /\ 1 \in DOMAIN pending
    /\ stdin = <<Doc(1), Nl(1), Doc(2), Nl(2)>>
    /\ chunks = <<Line(Resp(2))>>
    /\ pc[2] = "done" /\ outcome[2] = Some(Ok(ResultText(2)))

----------------------------------------------------------------------------
\* What a call has at stake: its entry in the table, its channel, what was
\* sent to it and what it returned.
Entry(c, map) == IF id[c] \in DOMAIN map THEN Some(map[id[c]]) ELSE None
SameCall(c) ==
    /\ Entry(c, pending') = Entry(c, pending)
    /\ chan'[c] = chan[c]
    /\ sentBy'[c] = sentBy[c]
    /\ outcome'[c] = outcome[c]

\* The ids of the responses among the complete lines of the stream that a
\* stdout step has in front of it: the buffer followed by the chunk.
Concerned ==
    ResponseIds(SelectSeq(StreamLines(stdout_buf \o chunks'[Len(chunks')]),
                          LAMBDA l : ~HasRecognizedTag(l)))

\* C19: failure isolation.  A step of one call (its timeout, its transport
\* failure, its return) leaves every other call as it was; a stdout step
\* leaves every call as it was except the calls whose responses are among
\* its lines, and those it resolves whatever malformed lines come with them.
C19_FailureIsolation ==
    [][/\ \A c \in Callers :
              pc'[c] # pc[c] => \A d \in Callers \ {c} : SameCall(d) /\ pc'[d] = pc[d]
       /\ StdoutStep =>
              \A c \in Callers :
                  /\ id[c] \notin Concerned => SameCall(c)
                  /\ (id[c] \in Concerned /\ id[c] \in DOMAIN pending /\ pc[c] = "wait")
                         => chan'[c] # None]_vars

----------------------------------------------------------------------------
StderrStep == stderr_chunks' # stderr_chunks

\* C20: stderr is demultiplexed on its own and never decoded.  A stderr
\* chunk, whatever it holds, leaves the stdout buffer, the pending table,
\* every channel and outcome and the event sink as they were and hands no
\* line to handle_sidecar_output; a stdout chunk leaves the stderr buffer
\* and what was printed from it as they were.
C20_StderrIndependent ==
    [][/\ StderrStep =>
              UNCHANGED <<stdout_buf, dispatched, pending, chan, sentBy, emitted,
                          outcome, pc>>
       /\ StdoutStep => UNCHANGED <<stderr_buf, logged>>]_vars

\* A response for the id of a waiting call arrived on stderr between the
\* two pieces of the same response on stdout: it was printed, the call
\* still waited, and the stdout response then resolved it.
C20_Witness ==
    /\ chunks = <<<<LB, Members(Resp(1))>>, <<RB, LF>>>>
    /\ stderr_chunks = <<Line(Resp(1))>>
    /\ logged = <<ObjText(Resp(1))>>
    /\ dispatched = <<ObjText(Resp(1))>>
    /\ emitted = <<>>
    /\ \E c \in Callers : id[c] = 1 /\ Len(sentBy[c]) = 1

====
